---- MODULE Spec2Model ----
(***************************************************************************)
(* A state-machine model of static/js/app.js: the page script of the CRM   *)
(* admin panel.  init() wires ten independent behaviours to the document;  *)
(* every listener and timer callback of the script is one action here.     *)
(*                                                                         *)
(* Conventions                                                             *)
(*  - The DOM the script reads is the set `present` of element ids of the  *)
(*    page (fixed while the page lives) plus one variable per DOM property *)
(*    the script writes.                                                   *)
(*  - One browser event is one action that runs every listener the script  *)
(*    registered for it, in registration order, and then the event's       *)
(*    default action unless a listener called preventDefault().            *)
(*  - setTimeout is a timer table `timers`; a timer whose delay has run    *)
(*    out fires before time advances further (Advance cannot step over an  *)
(*    expiry), other events may still be handled at the same instant.      *)
(*  - `effects` is what the last event did to the outside of the page      *)
(*    (navigation requested, form submission requested, default action     *)
(*    suppressed) or, for a time step or a callback, what that step did    *)
(*    (a request sent).                                                    *)
(*  - Strings the script only compares or copies are TLA+ strings; strings *)
(*    it takes apart (the search box value) are sequences of characters.   *)
(***************************************************************************)
EXTENDS Integers, Sequences, FiniteSets, TLC

(***************************************************************************)
(* Bounds of the model.                                                    *)
(***************************************************************************)
\* Longest text typed into the search box.
MaxLen == 3
\* Most lookups in flight at once (the user stops typing while that many wait).
MaxInFlight == 2

(***************************************************************************)
(* Numbers of the script.                                                  *)
(***************************************************************************)
\* setTimeout(..., 180): the debounce window of the search box.
DEBOUNCE_MS == 180
\* query.length < 2: the shortest query that is looked up.
MIN_QUERY == 2

\* Time advances by at most a third of the debounce window per step.
SearchStep == DEBOUNCE_MS \div 3
\* The stopwatch `sinceInput` stops here: "longer ago than the window".
LATE == DEBOUNCE_MS + 1

Min(S) == CHOOSE x \in S : \A y \in S : x <= y

(***************************************************************************)
(* Values.                                                                 *)
(***************************************************************************)
\* null as an element reference; 0 is null as a timer handle.
Null == "null"
\* A property or attribute that is not there (undefined).
Missing == "undefined"

\* Characters of the search box: a letter and a blank.
Alphabet == {"a", " "}
InputValues == UNION {[1..n -> Alphabet] : n \in 0..MaxLen}

\* Placeholders written to the results panel (the script's Ukrainian texts,
\* transliterated).
EmptyHtml == <<>>
NothingFound == <<<<"global-search-empty", "Nichoho ne znaideno">>>>
SearchError == <<<<"global-search-empty", "Pomylka poshuku">>>>

(***************************************************************************)
(* String.prototype.trim, as used on input.value.                          *)
(***************************************************************************)
IsSpace(c) == c = " "

RECURSIVE TrimStart(_)
TrimStart(s) == IF s # <<>> /\ IsSpace(Head(s)) THEN TrimStart(Tail(s)) ELSE s

RECURSIVE TrimEnd(_)
TrimEnd(s) ==
    IF s # <<>> /\ IsSpace(s[Len(s)]) THEN TrimEnd(SubSeq(s, 1, Len(s) - 1)) ELSE s

\* A trim that keeps the trailing blanks (String.prototype.trimStart).
TrimStartOnly(s) == TrimStart(s)

\* String.prototype.trim
Trim(s) == TrimEnd(TrimStart(s))

\* encodeURIComponent on the alphabet: a blank becomes %20, a letter stays.
EncodeURIComponent(q) == [i \in 1..Len(q) |-> IF q[i] = " " THEN "%20" ELSE q[i]]

\* What the endpoint reads back from the q parameter.
DecodeURIComponent(q) == [i \in 1..Len(q) |-> IF q[i] = "%20" THEN " " ELSE q[i]]

(***************************************************************************)
(* The search endpoint's JSON bodies.  A field is missing, a list of items *)
(* or (a malformed body) a non-empty string; the body itself may be null.  *)
(***************************************************************************)
Item(url, title, meta) == [url |-> url, title |-> title, meta |-> meta]

Field(kind, items) == [kind |-> kind, items |-> items]
NoField == Field("missing", <<>>)
ListOf(items) == Field("list", items)
TextField == Field("text", <<>>)

Payload(kind, o, c, p) == [kind |-> kind, orders |-> o, customers |-> c, products |-> p]
NullPayload == Payload("null", NoField, NoField, NoField)

\* The groups array with products first.
groupsProductsFirst ==
    << [key |-> "products", title |-> "Tovary"],
       [key |-> "orders", title |-> "Zamovlennia"],
       [key |-> "customers", title |-> "Kliienty"] >>

\* The groups of renderSearchResults, in the order of its array literal.
groups ==
    << [key |-> "orders", title |-> "Zamovlennia"],
       [key |-> "customers", title |-> "Kliienty"],
       [key |-> "products", title |-> "Tovary"] >>

\* payload[group.key]
FieldOf(payload, key) ==
    CASE key = "orders" -> payload.orders
      [] key = "customers" -> payload.customers
      [] key = "products" -> payload.products

\* payload[group.key] || []: a missing field reads as the empty list.
ItemsOf(payload, key) ==
    IF FieldOf(payload, key).kind = "list" THEN FieldOf(payload, key).items ELSE <<>>

\* item.meta || ''
MetaOf(item) == IF item.meta = Missing THEN "" ELSE item.meta

\* The markup of one item: the link with its title and secondary text.
ItemHtml(item) == <<"a.global-search-item", item.url, item.title, MetaOf(item)>>

\* The markup of one group: nothing when it has no items, else the section
\* header, one link per item in list order, and the closing tag.
GroupHtml(payload, group) ==
    LET items == ItemsOf(payload, group.key) IN
    IF Len(items) = 0 THEN <<>>
    ELSE <<<<"section.global-search-group", group.title>>>>
         \o [i \in 1..Len(items) |-> ItemHtml(items[i])]
         \o <<<<"/section">>>>

\* groups.forEach(...): the markup of the groups, concatenated in order.
RECURSIVE GroupsHtml(_, _)
GroupsHtml(payload, gs) ==
    IF gs = <<>> THEN <<>>
    ELSE GroupHtml(payload, Head(gs)) \o GroupsHtml(payload, Tail(gs))

\* Reading payload[key] of null, or items.forEach of a string, throws.
RenderThrows(payload) ==
    \/ payload.kind = "null"
    \/ \E i \in 1..Len(groups) : FieldOf(payload, groups[i].key).kind = "text"

\* renderSearchResults(container, payload): the container afterwards.  It
\* throws before it writes anything, so a throw leaves the container as is.
renderSearchResults(container, payload) ==
    IF RenderThrows(payload) THEN [threw |-> TRUE, hidden |-> container.hidden,
                                   html |-> container.html]
    ELSE LET html == GroupsHtml(payload, groups) IN
         [threw |-> FALSE, hidden |-> FALSE,
          html |-> IF html = <<>> THEN NothingFound ELSE html]

(***************************************************************************)
(* The page.  Elements are named by their id (or by their role where the   *)
(* script finds them by selector); Parent, Tag and the attribute operators *)
(* are the markup the script relies on.                                    *)
(***************************************************************************)
Elements ==
    { "body", "themeToggle", "sidebar", "sidebarToggle", "sidebarBackdrop",
      "globalSearchForm", "globalSearchInput", "globalSearchResults",
      "newOrderLink", "deleteLink", "deleteIcon", "deleteForm", "deleteButton",
      "archiveButton", "confirmActionModal", "confirmActionBody",
      "confirmActionAccept", "editForm", "saveButton", "notes", "filterForm",
      "dateRangePreset", "toast1", "toast1Close", "toast2",
      "customDateRange", "copyButton", "copyIcon", "copyEmpty",
      "orderRow", "rowCell", "rowLink", "rowLinkIcon", "rowButton", "rowLabel",
      "rowCheck", "rowSelect", "rowNote", "emptyRow", "emptyRowCell" }

Parent(e) ==
    CASE e = "body" -> Null
      [] e \in {"globalSearchInput", "globalSearchResults"} -> "globalSearchForm"
      [] e = "deleteIcon" -> "deleteLink"
      [] e = "deleteButton" -> "deleteForm"
      [] e \in {"confirmActionBody", "confirmActionAccept"} -> "confirmActionModal"
      [] e \in {"saveButton", "notes"} -> "editForm"
      [] e \in {"dateRangePreset", "customDateRange"} -> "filterForm"
      [] e = "toast1Close" -> "toast1"
      [] e = "copyIcon" -> "copyButton"
      [] e \in {"rowCell", "rowLink", "rowButton", "rowLabel", "rowSelect", "rowNote"}
             -> "orderRow"
      [] e = "rowLinkIcon" -> "rowLink"
      [] e = "rowCheck" -> "rowLabel"
      [] e = "emptyRowCell" -> "emptyRow"
      [] OTHER -> "body"

Tag(e) ==
    CASE e \in {"themeToggle", "sidebarToggle", "deleteButton", "archiveButton",
                "confirmActionAccept", "saveButton", "toast1Close", "copyButton",
                "copyEmpty", "rowButton"} -> "BUTTON"
      [] e \in {"newOrderLink", "deleteLink", "rowLink"} -> "A"
      [] e \in {"globalSearchForm", "deleteForm", "editForm", "filterForm"} -> "FORM"
      [] e \in {"globalSearchInput", "rowCheck"} -> "INPUT"
      [] e \in {"notes", "rowNote"} -> "TEXTAREA"
      [] e \in {"dateRangePreset", "rowSelect"} -> "SELECT"
      [] e \in {"deleteIcon", "copyIcon", "rowLinkIcon"} -> "I"
      [] e \in {"orderRow", "emptyRow"} -> "TR"
      [] e \in {"rowCell", "emptyRowCell"} -> "TD"
      [] e = "rowLabel" -> "LABEL"
      [] e = "body" -> "BODY"
      [] OTHER -> "DIV"

\* The href property of a link ("" when the element has none).
Href(e) ==
    CASE e = "newOrderLink" -> "/orders/create/"
      [] e = "deleteLink" -> "/orders/1/delete/"
      [] e = "rowLink" -> "/customers/2/"
      [] OTHER -> ""

\* The type property of a control.
Type(e) ==
    CASE e \in {"deleteButton", "saveButton"} -> "submit"
      [] Tag(e) = "BUTTON" -> "button"
      [] e = "globalSearchInput" -> "search"
      [] e = "rowCheck" -> "checkbox"
      [] OTHER -> Missing

\* dataset.confirm: the confirmation prompt (Missing: the element has none;
\* "": the attribute is there and empty).
DataConfirm(e) ==
    CASE e = "deleteLink" -> "Delete the order?"
      [] e = "deleteButton" -> ""
      [] e = "archiveButton" -> "Archive?"
      [] OTHER -> Missing

\* dataset.copy: the copy payload (Missing: the element has none).
DataCopy(e) ==
    CASE e = "copyButton" -> "ABC"
      [] e = "copyEmpty" -> ""
      [] OTHER -> Missing

\* getAttribute('data-row-link'): the row's target (Missing: no attribute).
DataRowLink(e) ==
    CASE e = "orderRow" -> "/orders/7/"
      [] e = "emptyRow" -> ""
      [] OTHER -> Missing

\* dataset.loadingText
DataLoadingText(e) == IF e = "saveButton" THEN "Saving the order" ELSE Missing

Forms == {e \in Elements : Tag(e) = "FORM"}
Toasts == {"toast1", "toast2"}
\* The elements with a copy payload, and the icons inside them.
CopyButtons == {e \in Elements : DataCopy(e) # Missing}
Icons == {e \in Elements : Tag(e) = "I" /\ Parent(e) \in CopyButtons}

\* The element and its ancestors, nearest first.
RECURSIVE Ancestry(_)
Ancestry(e) == IF e = Null THEN <<>> ELSE <<e>> \o Ancestry(Parent(e))

\* element.closest(selector), the selector given as a predicate.
Closest(e, Matches(_)) ==
    LET chain == Ancestry(e)
        hits == {i \in 1..Len(chain) : Matches(chain[i])} IN
    IF hits = {} THEN Null ELSE chain[Min(hits)]

\* node.contains(e)
Contains(node, e) == \E i \in 1..Len(Ancestry(e)) : Ancestry(e)[i] = node

\* form.querySelector('button[type="submit"],input[type="submit"]')
SubmitControlOf(form) ==
    LET found == {e \in Elements : Parent(e) = form /\ Type(e) = "submit"} IN
    IF found = {} THEN Null ELSE CHOOSE e \in found : TRUE

SubmitControls == {SubmitControlOf(f) : f \in Forms} \ {Null}

(***************************************************************************)
(* State.                                                                  *)
(***************************************************************************)
VARIABLES
    pageState,       \* "loading" until init() has run, then "ready"
    present,         \* the elements of this page
    storedTheme,     \* localStorage crm_theme (Null: no such key)
    prefersDark,     \* matchMedia('(prefers-color-scheme: dark)').matches
    rootTheme,       \* the root element's data-theme (Null: no attribute)
    themeToggleHtml, \* themeToggle.innerHTML
    themeLog,        \* root attribute and stored value before each of the last two toggle clicks
    sidebarOpen,     \* sidebar has class is-open
    backdropOpen,    \* sidebarBackdrop has class is-open
    toasts,          \* per toast: in the document, style.opacity, style.transform
    now,             \* ms since initToasts ran, while the page has toasts
    closedAt,        \* per toast: when its close control was first clicked
    timers,          \* the pending timeouts of setTimeout
    buttons,         \* per submit control: dataset.loadingBound, disabled, ...
    pendingAction,   \* initConfirmModal's pendingAction
    modalShown,      \* the confirmation dialog is shown
    confirmText,     \* confirmActionBody.textContent
    activeElement,   \* document.activeElement
    effects,         \* what the last step did to the outside
    lastQuery,       \* the trimmed query of the last input event of the search box
    dismissed,       \* the panel was hidden by Escape, an outside click or a short input, and no input event came since
    timer,           \* initGlobalSearch's timer (0: null)
    inflight,        \* the lookups not yet settled, in the order issued
    panel,           \* globalSearchResults: hidden, innerHTML
    sinceInput,      \* ms since the last input event of the search box
    burstIssued,     \* lookups issued since the last input event
    clipboardApi,    \* navigator.clipboard?.writeText is there
    copied,          \* per copy button: it has class is-copied
    iconClasses,     \* per icon of a copy button: which of bi-clipboard, bi-check2 it has
    writes,          \* the buttons whose clipboard write has not settled, in order
    copiedFor,       \* per copy button: ms since a successful copy last set is-copied
    dateValue,       \* dateRangePreset.value
    customDisplay    \* customDateRange.style.display

themeVars == <<storedTheme, prefersDark, rootTheme, themeToggleHtml, themeLog>>
sidebarVars == <<sidebarOpen, backdropOpen>>
toastVars == <<toasts, now, closedAt>>
confirmVars == <<pendingAction, modalShown, confirmText>>
searchVars == <<lastQuery, dismissed, timer, inflight, panel, sinceInput, burstIssued>>
copyVars == <<clipboardApi, copied, iconClasses, writes, copiedFor>>
dateVars == <<dateValue, customDisplay>>
vars ==
    <<pageState, present, themeVars, sidebarVars, toastVars, timers, buttons,
      confirmVars, activeElement, effects, searchVars, copyVars, dateVars>>

(***************************************************************************)
(* Timers: setTimeout and clearTimeout on the browser's timer table.       *)
(***************************************************************************)
\* Most timers pending at once (the user stops clicking a close control or
\* a copy button while that many wait).
MaxTimers == 3

\* A handle no pending timer has and that is not `handle` (the handle the
\* script still holds): setTimeout never hands out a live handle again.
FreshId(tbl, handle) ==
    Min({n \in 1..(Cardinality(tbl) + 2) : n # handle /\ \A t \in tbl : t.id # n})

Timeout(id, kind, delay, toast, query) ==
    [id |-> id, remaining |-> delay, kind |-> kind, toast |-> toast, query |-> query]

\* setTimeout(callback, delay): the table with the new timer in it.
SetTimeout(tbl, handle, kind, delay, toast, query) ==
    tbl \cup {Timeout(FreshId(tbl, handle), kind, delay, toast, query)}

\* A clearTimeout that cancels nothing.
ClearNothing(tbl, handle) == tbl

\* clearTimeout(handle): a handle of no pending timer (null, fired) is ignored.
ClearTimeout(tbl, handle) == {t \in tbl : t.id # handle}

Due(kind) == {t \in timers : t.kind = kind /\ t.remaining = 0}

(***************************************************************************)
(* Theme (setTheme, initTheme).                                            *)
(***************************************************************************)
\* What the preference store may hold when the page loads: nothing, a theme
\* this script wrote, or a string something else wrote (the empty one too).
StoredValues == {Null, "", "light", "dark", "sepia"}

SunLabel == "bi-sun Svitla tema"
MoonLabel == "bi-moon-stars Temna tema"

\* if (savedTheme): null and the empty string are falsy.
Truthy(value) == value # Null /\ value # ""

\* A setTheme that does not write the preference store.
setThemeUnsaved(theme) ==
    /\ rootTheme' = theme
    /\ UNCHANGED storedTheme
    /\ themeToggleHtml' =
           IF "themeToggle" \in present
           THEN (IF theme = "dark" THEN SunLabel ELSE MoonLabel)
           ELSE themeToggleHtml
    /\ UNCHANGED prefersDark

\* setTheme(theme): the root attribute, the stored value, the toggle's label.
setTheme(theme) ==
    /\ rootTheme' = theme
    /\ storedTheme' = theme
    /\ themeToggleHtml' =
           IF "themeToggle" \in present
           THEN (IF theme = "dark" THEN SunLabel ELSE MoonLabel)
           ELSE themeToggleHtml
    /\ UNCHANGED prefersDark

\* An initial theme that looks at the system preference only.
InitialThemeFromSystem == IF prefersDark THEN "dark" ELSE "light"

\* initTheme's choice: the saved theme if it is truthy, else the system
\* preference.
InitialTheme ==
    IF Truthy(storedTheme) THEN storedTheme
    ELSE IF prefersDark THEN "dark" ELSE "light"

\* A toggle that only ever switches to dark.
ToggledThemeDark == "dark"

\* The click listener of themeToggle.
ToggledTheme == IF rootTheme = "dark" THEN "light" ELSE "dark"

\* The log of the theme before the last two toggle clicks, this click added.
LoggedTheme ==
    LET log == Append(themeLog, <<rootTheme, storedTheme>>) IN
    IF Len(log) > 2 THEN Tail(log) ELSE log

(***************************************************************************)
(* Toasts (hideToast, initToasts).                                         *)
(***************************************************************************)
\* setTimeout(() => hideToast(toast), 4500)
TOAST_MS == 4500
\* setTimeout(() => toast.remove(), 200)
FADE_MS == 200
\* Time advances by at most the fade delay per step on a page with toasts.
ToastStep == FADE_MS
\* The clock `now` stops here: "after every toast timer has run".
NowCap == TOAST_MS + FADE_MS + 1
\* closedAt of a toast whose close control was never clicked.
Never == 0 - 1

\* toast.querySelector('.toast-close')
CloseControlOf(toast) == IF toast = "toast1" THEN "toast1Close" ELSE Null

ToastsInOrder == <<"toast1", "toast2">>

\* hideToast(toast) on the toast table and the timer table.
HideToastStyle(tt, toast) ==
    [tt EXCEPT ![toast].opacity = "0", ![toast].transform = "translateX(10px)"]

\* A hideToast that fades the toast and never removes it.
HideToastTimerNone(tbl, toast) == tbl

\* hideToast: setTimeout(() => toast.remove(), 200)
HideToastTimer(tbl, toast) == SetTimeout(tbl, timer, "toastRemove", FADE_MS, toast, <<>>)

\* initToasts: one 4500 ms timeout per .toast-item of the document.
RECURSIVE InitToastTimers(_, _)
InitToastTimers(tbl, ts) ==
    IF ts = <<>> THEN tbl
    ELSE InitToastTimers(
             IF Head(ts) \in present
             THEN SetTimeout(tbl, timer, "toastTimeout", TOAST_MS, Head(ts), <<>>)
             ELSE tbl,
             Tail(ts))

(***************************************************************************)
(* init(): the ten initializers.  Those that only bind listeners change no *)
(* state; whether their listeners are bound is read off `present`.         *)
(***************************************************************************)
Ready == pageState = "ready"

\* initSidebar returns early without the panel or the backdrop.
SidebarBound == Ready /\ {"sidebar", "sidebarBackdrop"} \subseteq present

\* initConfirmModal returns early without its three elements (or bootstrap).
ConfirmBound ==
    Ready /\ {"confirmActionModal", "confirmActionAccept", "confirmActionBody"}
                 \subseteq present

\* initGlobalSearch returns early without the form, the input or the panel.
SearchBound ==
    Ready /\ {"globalSearchForm", "globalSearchInput", "globalSearchResults"}
                 \subseteq present

\* The values the select offers ("Custom" is not the sentinel).
DateValues == {"", "week", "custom", "Custom"}

\* initCustomDateRange returns early without the select or the field group.
DateBound == {"dateRangePreset", "customDateRange"} \subseteq present

\* A sync that shows the field group for every value but the empty one.
SyncNonEmpty(value) == IF value # "" THEN "flex" ELSE "none"

\* sync: customRange.style.display for this value of the select.
Sync(value) == IF value = "custom" THEN "flex" ELSE "none"

init ==
    /\ pageState = "loading"
    /\ pageState' = "ready"
    /\ setTheme(InitialTheme)
    /\ UNCHANGED themeLog
    /\ timers' = InitToastTimers(timers, ToastsInOrder)
    /\ customDisplay' = IF DateBound THEN Sync(dateValue) ELSE customDisplay
    /\ effects' = {}
    /\ UNCHANGED <<present, sidebarVars, toastVars, buttons, confirmVars,
                   activeElement, searchVars, copyVars, dateValue>>

(***************************************************************************)
(* Global search (initGlobalSearch).                                       *)
(***************************************************************************)
\* The bodies the endpoint answers with in the search runs: no field, one
\* group, and a body renderSearchResults cannot render.
OrderItem == Item("/o/1", "Order 1", Missing)
CustomerItem == Item("/c/2", "Ann", "VIP")
ProductItem == Item("/p/3", "Lamp", "")

ServerPayloads ==
    { Payload("object", NoField, NoField, NoField),
      Payload("object", ListOf(<<OrderItem>>), NoField, NoField),
      NullPayload }

\* How await fetch(...) ends: a response that is OK, one that is not, a rejection.
FetchResults == {"ok", "not-ok", "rejected"}

\* A response body: whether it parses as JSON and, if so, what it holds.
Body(parses, payload) == [parses |-> parses, payload |-> payload]
\* The body of a lookup that has no response yet, and a body that does not parse.
NoBody == Body(FALSE, NullPayload)

ServerBodies == {NoBody} \cup {Body(TRUE, p) : p \in ServerPayloads}

\* A lookup in flight: where its callback waits ("fetch": at await fetch,
\* "json": at await response.json()), whether it is the most recently issued
\* one, and the body of its response once it has one.  Its request is in
\* `effects` when it is issued; nothing reads the query afterwards.
Lookup(stage, latest, body) == [stage |-> stage, latest |-> latest, body |-> body]

\* The GET request of a lookup: fetch(`${endpoint}?q=${encodeURIComponent(query)}`).
FetchRequest(query) == <<"fetch">> \o EncodeURIComponent(query)

RemoveAt(seq, i) == SubSeq(seq, 1, i - 1) \o SubSeq(seq, i + 1, Len(seq))

\* One more lookup in flight; it alone is now the most recently issued one.
IssueLookup(flight) ==
    Append([i \in DOMAIN flight |-> [flight[i] EXCEPT !.latest = FALSE]],
           Lookup("fetch", TRUE, NoBody))

\* A catch branch that writes the placeholder and leaves the panel's
\* visibility as it found it.
CatchPanelKeepsHidden == [hidden |-> panel.hidden, html |-> SearchError]

\* The catch block: the panel shown with the error placeholder.
CatchPanel == [hidden |-> FALSE, html |-> SearchError]

\* The input listener of the search box, the box now holding v.
OnSearchInput(v) ==
    LET query == Trim(v)
        cleared == ClearTimeout(timers, timer) IN
    IF Len(query) < MIN_QUERY
    THEN /\ timers' = cleared
         /\ panel' = [hidden |-> TRUE, html |-> EmptyHtml]
         /\ UNCHANGED timer
    ELSE /\ Len(inflight) < MaxInFlight
         /\ timers' = SetTimeout(cleared, timer, "search", DEBOUNCE_MS, Null, query)
         /\ timer' = FreshId(cleared, timer)
         /\ UNCHANGED panel

\* An input event of the search box: the user's edit leaves v in the box
\* (input.value, which the script reads and never writes).
Input(v) ==
    /\ Ready
    /\ "globalSearchInput" \in present
    /\ lastQuery' = Trim(v)
    /\ dismissed' = (SearchBound /\ Len(Trim(v)) < MIN_QUERY)
    /\ sinceInput' = 0
    /\ burstIssued' = 0
    /\ effects' = {}
    /\ IF SearchBound THEN OnSearchInput(v) ELSE UNCHANGED <<timers, timer, panel>>
    /\ UNCHANGED <<pageState, present, copyVars, dateVars, themeVars, sidebarVars, toastVars, buttons,
                   confirmVars, activeElement, inflight>>

\* The debounce timer's callback up to its first await: the lookup is issued.
FireSearchTimer(t) ==
    /\ t \in Due("search")
    /\ timers' = timers \ {t}
    /\ inflight' = IssueLookup(inflight)
    /\ burstIssued' = Min({burstIssued + 1, 2})
    /\ effects' = {FetchRequest(t.query)}
    /\ UNCHANGED <<pageState, present, copyVars, dateVars, themeVars, sidebarVars, toastVars, buttons,
                   confirmVars, activeElement, lastQuery, dismissed, timer, panel, sinceInput>>

\* await fetch(...) settles for lookup i: an OK response (with this body)
\* goes on to json(), anything else throws into the catch block.
FetchSettles(i, result, body) ==
    /\ i \in DOMAIN inflight
    /\ inflight[i].stage = "fetch"
    /\ IF result = "ok"
       THEN /\ inflight' = [inflight EXCEPT ![i].stage = "json", ![i].body = body]
            /\ UNCHANGED panel
       ELSE /\ inflight' = RemoveAt(inflight, i)
            /\ panel' = CatchPanel
    /\ effects' = {}
    /\ UNCHANGED <<pageState, present, copyVars, dateVars, themeVars, sidebarVars, toastVars, timers,
                   buttons, confirmVars, activeElement, lastQuery, dismissed, timer,
                   sinceInput, burstIssued>>

\* A callback that renders only the most recently issued lookup and drops
\* the response of any other.
JsonSettlesLatestOnly(i) ==
    /\ i \in DOMAIN inflight
    /\ inflight[i].stage = "json"
    /\ inflight' = RemoveAt(inflight, i)
    /\ LET r == renderSearchResults(panel, inflight[i].body.payload) IN
       panel' = IF ~inflight[i].latest
                THEN panel
                ELSE IF inflight[i].body.parses /\ ~r.threw
                     THEN [hidden |-> r.hidden, html |-> r.html]
                     ELSE CatchPanel
    /\ effects' = {}
    /\ UNCHANGED <<pageState, present, copyVars, dateVars, themeVars, sidebarVars, toastVars, timers,
                   buttons, confirmVars, activeElement, lastQuery, dismissed, timer,
                   sinceInput, burstIssued>>

\* await response.json() settles for lookup i: a body that parses is
\* rendered; one that does not parse, or does not render, ends in the catch.
JsonSettles(i) ==
    /\ i \in DOMAIN inflight
    /\ inflight[i].stage = "json"
    /\ inflight' = RemoveAt(inflight, i)
    /\ LET r == renderSearchResults(panel, inflight[i].body.payload) IN
       panel' = IF inflight[i].body.parses /\ ~r.threw
                THEN [hidden |-> r.hidden, html |-> r.html]
                ELSE CatchPanel
    /\ effects' = {}
    /\ UNCHANGED <<pageState, present, copyVars, dateVars, themeVars, sidebarVars, toastVars, timers,
                   buttons, confirmVars, activeElement, lastQuery, dismissed, timer,
                   sinceInput, burstIssued>>

(***************************************************************************)
(* Time.                                                                   *)
(***************************************************************************)
HasToasts == Toasts \cap present # {}

\* setTimeout(..., 1400): how long the copied state is shown.
COPIED_MS == 1400
\* The stopwatch `copiedFor` stops here.
CopiedCap == COPIED_MS + 1
\* Time advances by half of that per step in the copy runs.
CopyStep == COPIED_MS \div 2

\* Time passes: by `step`, or less when a timer expires sooner.  The clock
\* `now` runs on a page with toasts; the stopwatches stop at their caps.
Advance(step) ==
    LET d == Min({step} \cup {t.remaining : t \in timers}) IN
    /\ Ready
    /\ d > 0
    /\ timers' = {[t EXCEPT !.remaining = @ - d] : t \in timers}
    /\ sinceInput' = Min({sinceInput + d, LATE})
    /\ now' = IF HasToasts THEN Min({now + d, NowCap}) ELSE now
    /\ copiedFor' = [b \in CopyButtons |-> Min({copiedFor[b] + d, CopiedCap})]
    /\ effects' = {}
    /\ UNCHANGED <<pageState, present, themeVars, sidebarVars, toasts, closedAt,
                   buttons, confirmVars, activeElement, lastQuery, dismissed, timer,
                   inflight, panel, burstIssued, clipboardApi, copied, iconClasses,
                   writes, dateVars>>

(***************************************************************************)
(* Submit loading state (setButtonLoadingState, initLoadingButtons).       *)
(***************************************************************************)
DefaultLoadingText == "Zberezhennia..."
OriginalHtml == <<"original">>

\* A submit control as the server rendered it.
IdleButton ==
    [loadingBound |-> FALSE, loading |-> FALSE, disabled |-> FALSE, html |-> OriginalHtml]

\* button.dataset.loadingText || the default label
LoadingLabel(button) ==
    IF DataLoadingText(button) \in {Missing, ""} THEN DefaultLoadingText
    ELSE DataLoadingText(button)

\* A setButtonLoadingState that replaces the content and leaves the button
\* enabled.
setButtonLoadingStateEnabled(bs, button) ==
    IF button = Null \/ bs[button].loadingBound THEN bs
    ELSE [bs EXCEPT ![button] =
              [loadingBound |-> TRUE, loading |-> TRUE, disabled |-> FALSE,
               html |-> <<"btn-spinner", "btn-label", LoadingLabel(button)>>]]

\* setButtonLoadingState(button) on the table of submit controls.
setButtonLoadingState(bs, button) ==
    IF button = Null \/ bs[button].loadingBound THEN bs
    ELSE [bs EXCEPT ![button] =
              [loadingBound |-> TRUE, loading |-> TRUE, disabled |-> TRUE,
               html |-> <<"btn-spinner", "btn-label", LoadingLabel(button)>>]]

\* The submit listener of a form: its first submit control, if it has one.
OnSubmit(bs, form) ==
    IF SubmitControlOf(form) # Null THEN setButtonLoadingState(bs, SubmitControlOf(form))
    ELSE bs

\* A submit event on a form that no click of this model caused (Enter in a
\* field, a script).
Submit(form) ==
    /\ Ready
    /\ form \in Forms \cap present
    /\ buttons' = OnSubmit(buttons, form)
    /\ effects' = {<<"submit", form>>}
    /\ UNCHANGED <<pageState, present, copyVars, dateVars, themeVars, sidebarVars, toastVars, timers,
                   confirmVars, activeElement, searchVars>>

(***************************************************************************)
(* Keyboard (initSidebar, initShortcuts and initGlobalSearch on keydown).  *)
(***************************************************************************)
Keys == {"n", "N", "f", "x", "Escape"}

\* event.key.toLowerCase()
ToLowerCase(key) ==
    CASE key = "N" -> "n"
      [] key = "Escape" -> "escape"
      [] OTHER -> key

\* ['INPUT', 'TEXTAREA', 'SELECT'].includes(doc.activeElement?.tagName)
Typing == Tag(activeElement) \in {"INPUT", "TEXTAREA", "SELECT"}

\* A shortcut listener without the typing guard.
ShortcutIgnoresNothing(key) == FALSE

\* The shortcut listener returns at once for a key typed into a control.
ShortcutIgnores(key) == Typing /\ ToLowerCase(key) # "escape"

\* What the shortcut listener does to the outside for this key.
ShortcutEffects(key) ==
    IF ShortcutIgnores(key) THEN {}
    ELSE (IF ToLowerCase(key) \in {"n", "f"} THEN {<<"preventDefault">>} ELSE {})
         \cup (IF ToLowerCase(key) = "n" /\ "newOrderLink" \in present
               THEN {<<"navigate", Href("newOrderLink")>>} ELSE {})

\* The focus after the shortcut listener: f focuses the search box.
ShortcutFocus(key) ==
    IF ~ShortcutIgnores(key) /\ ToLowerCase(key) = "f" /\ "globalSearchInput" \in present
    THEN "globalSearchInput"
    ELSE activeElement

\* The is-open class of the sidebar and of the backdrop.
SidebarClasses == [sidebar |-> sidebarOpen, backdrop |-> backdropOpen]

\* A close() that leaves the sidebar's class alone.
closeBackdropOnly(classes) == [classes EXCEPT !.backdrop = FALSE]

\* close(): classList.remove('is-open') on the sidebar and the backdrop.
close(classes) == [classes EXCEPT !.sidebar = FALSE, !.backdrop = FALSE]

\* open(): classList.add('is-open') on the sidebar and the backdrop.
open(classes) == [classes EXCEPT !.sidebar = TRUE, !.backdrop = TRUE]

SetSidebarClasses(classes) ==
    /\ sidebarOpen' = classes.sidebar
    /\ backdropOpen' = classes.backdrop

\* input.blur(): the focus falls back to the body when the box had it.
Blur(focus, element) == IF focus = element THEN "body" ELSE focus

\* A keydown event: the listeners of initSidebar, initShortcuts and
\* initGlobalSearch, in the order init() registered them.
KeyDown(key) ==
    /\ Ready
    /\ IF SidebarBound /\ key = "Escape"
       THEN SetSidebarClasses(close(SidebarClasses))
       ELSE UNCHANGED sidebarVars
    /\ effects' = ShortcutEffects(key)
    /\ IF SearchBound /\ key = "Escape"
       THEN /\ panel' = [panel EXCEPT !.hidden = TRUE]
            /\ dismissed' = TRUE
            /\ activeElement' = Blur(ShortcutFocus(key), "globalSearchInput")
       ELSE /\ UNCHANGED <<panel, dismissed>>
            /\ activeElement' = ShortcutFocus(key)
    /\ UNCHANGED <<pageState, present, copyVars, dateVars, themeVars, toastVars, timers, buttons,
                   confirmVars, lastQuery, timer, inflight, sinceInput, burstIssued>>

\* The user moves the focus (pointer or Tab) to a control, or off to the body.
Focusable(e) == e = "body" \/ Tag(e) \in {"INPUT", "TEXTAREA", "SELECT", "BUTTON", "A"}

Focus(e) ==
    /\ Ready
    /\ e \in present
    /\ Focusable(e)
    /\ e # activeElement
    /\ activeElement' = e
    /\ effects' = {}
    /\ UNCHANGED <<pageState, present, copyVars, dateVars, themeVars, sidebarVars, toastVars, timers,
                   buttons, confirmVars, searchVars>>

(***************************************************************************)
(* Confirmation dialog (initConfirmModal).                                 *)
(***************************************************************************)
DefaultConfirmText == "Vy vpevneni, shcho khochete prodovzhyty?"

HasConfirm(e) == DataConfirm(e) # Missing
IsForm(e) == Tag(e) = "FORM"
IsLink(e) == Tag(e) = "A" /\ Href(e) # ""
IsSubmitControl(e) == Type(e) = "submit"

\* event.target.closest('[data-confirm]') in the document's click listener
\* (Null as well when the listener was never bound).
ConfirmTrigger(e) == IF ConfirmBound THEN Closest(e, HasConfirm) ELSE Null

\* A trigger listener that never calls preventDefault.
ConfirmPreventsNever(e) == FALSE

\* The document's click listener calls event.preventDefault() for a trigger.
ConfirmPrevents(e) == ConfirmTrigger(e) # Null

\* trigger.dataset.confirm || the default prompt
ConfirmPrompt(trigger) ==
    IF DataConfirm(trigger) \in {Missing, ""} THEN DefaultConfirmText
    ELSE DataConfirm(trigger)

\* The Accept listener gets past its guard: it is bound, the click is on the
\* Accept button, and a trigger is pending.
AcceptActs(e) ==
    ConfirmBound /\ Contains("confirmActionAccept", e) /\ pendingAction # Null

\* The form whose submission Accept requests for this trigger (Null: none).
AcceptForm(trigger) ==
    IF ~IsLink(trigger) /\ Type(trigger) = "submit" THEN Closest(trigger, IsForm) ELSE Null

\* What Accept does to the outside for the pending trigger: a link is
\* navigated to, else a submit control has its form's submission requested.
AcceptEffects(trigger) ==
    IF IsLink(trigger) THEN {<<"navigate", Href(trigger)>>}
    ELSE IF AcceptForm(trigger) # Null
         THEN {<<"requestSubmit", AcceptForm(trigger), trigger>>}
         ELSE {}

\* An Accept listener that leaves the trigger pending.
AcceptKeeps(trigger) == trigger

\* pendingAction after the Accept listener has acted.
AcceptClears(trigger) == Null

(***************************************************************************)
(* Copy to clipboard (initCopyButtons).                                    *)
(***************************************************************************)
\* Most clipboard writes pending at once.
MaxWrites == 2

HasCopy(e) == DataCopy(e) # Missing

\* button.querySelector('i') (Null: the button has no icon)
IconOf(button) ==
    LET found == {i \in Icons : Parent(i) = button} IN
    IF found = {} THEN Null ELSE CHOOSE i \in found : TRUE

\* event.target.closest('[data-copy]') in the document's click listener
CopyTrigger(e) == IF Ready THEN Closest(e, HasCopy) ELSE Null

\* The copy listener calls event.preventDefault() for a copy button.
CopyPrevents(e) == CopyTrigger(e) # Null

\* copyText(text) up to its first await: an empty payload returns false at
\* once; with the clipboard API the write is started and awaited; without
\* it the legacy command runs and returns `ok`.
CopyPath(button) ==
    IF DataCopy(button) = "" THEN "empty"
    ELSE IF clipboardApi THEN "api" ELSE "legacy"

\* What the copy listener does to the outside for a click on e, the legacy
\* command returning `ok`: the text is handed to the clipboard API, or the
\* legacy command has put it on the clipboard.
CopyEffects(e, ok) ==
    IF CopyTrigger(e) = Null THEN {}
    ELSE CASE CopyPath(CopyTrigger(e)) = "empty" -> {}
           [] CopyPath(CopyTrigger(e)) = "api" -> {<<"writeText", DataCopy(CopyTrigger(e))>>}
           [] CopyPath(CopyTrigger(e)) = "legacy" ->
                  IF ok THEN {<<"clipboard", DataCopy(CopyTrigger(e))>>} ELSE {}

\* The copy listener after `await copyText(...)` said true: the copied
\* state on the button and its icon.
CopiedClasses(classes) == (classes \ {"bi-clipboard"}) \cup {"bi-check2"}
RevertedClasses(classes) == (classes \ {"bi-check2"}) \cup {"bi-clipboard"}

\* A listener that shows the copied state and starts no timer to revert it.
CopyRevertTimerNone(tbl, button) == tbl

\* setTimeout(() => { ...revert... }, 1400)
CopyRevertTimer(tbl, button) == SetTimeout(tbl, timer, "copyRevert", COPIED_MS, button, <<>>)

ShowCopied(button) ==
    /\ copied' = [copied EXCEPT ![button] = TRUE]
    /\ iconClasses' =
           IF IconOf(button) = Null THEN iconClasses
           ELSE [iconClasses EXCEPT ![IconOf(button)] = CopiedClasses(@)]
    /\ copiedFor' = [copiedFor EXCEPT ![button] = 0]

\* The clipboard write of the i-th waiting listener settles: resolved, the
\* listener shows the copied state; rejected, the listener ends there.
WriteSettles(i, ok) ==
    /\ i \in DOMAIN writes
    /\ writes' = SubSeq(writes, 1, i - 1) \o SubSeq(writes, i + 1, Len(writes))
    /\ IF ok
       THEN /\ Cardinality(timers) < MaxTimers
            /\ ShowCopied(writes[i])
            /\ timers' = CopyRevertTimer(timers, writes[i])
            /\ effects' = {<<"clipboard", DataCopy(writes[i])>>}
       ELSE /\ UNCHANGED <<copied, iconClasses, copiedFor, timers>>
            /\ effects' = {}
    /\ UNCHANGED <<pageState, present, themeVars, sidebarVars, toastVars, buttons,
                   confirmVars, activeElement, searchVars, clipboardApi, dateVars>>

\* The 1400 ms timeout of the copy listener fires: the copied state is
\* taken off the button and its icon.
FireCopyRevert(t) ==
    /\ t \in Due("copyRevert")
    /\ copied' = [copied EXCEPT ![t.toast] = FALSE]
    /\ iconClasses' =
           IF IconOf(t.toast) = Null THEN iconClasses
           ELSE [iconClasses EXCEPT ![IconOf(t.toast)] = RevertedClasses(@)]
    /\ timers' = timers \ {t}
    /\ effects' = {}
    /\ UNCHANGED <<pageState, present, themeVars, sidebarVars, toastVars, buttons,
                   confirmVars, activeElement, searchVars, clipboardApi, writes,
                   copiedFor, dateVars>>

(***************************************************************************)
(* Row click (initRowClick).                                               *)
(***************************************************************************)
IsRow(e) == DataRowLink(e) # Missing

\* closest('a,button,input,select,textarea,label')
IsInteractive(e) == Tag(e) \in {"A", "BUTTON", "INPUT", "SELECT", "TEXTAREA", "LABEL"}

\* A row listener that navigates wherever in the row the click lands.
RowIgnoresNever(e) == FALSE

\* The row's click listener returns at once for a click on or inside an
\* interactive element.
RowIgnores(e) == Closest(e, IsInteractive) # Null

\* The click listener of the row the click is in: window.location.href = href
\* when the row has a target.
RowEffects(e) ==
    LET row == Closest(e, IsRow) IN
    IF Ready /\ row # Null /\ ~RowIgnores(e) /\ DataRowLink(row) # ""
    THEN {<<"navigate", DataRowLink(row)>>}
    ELSE {}

(***************************************************************************)
(* Custom date range (initCustomDateRange).                                *)
(***************************************************************************)
\* A change event of the select: the user has picked v.
Change(v) ==
    /\ Ready
    /\ "dateRangePreset" \in present
    /\ v # dateValue
    /\ dateValue' = v
    /\ customDisplay' = IF DateBound THEN Sync(v) ELSE customDisplay
    /\ effects' = {}
    /\ UNCHANGED <<pageState, present, themeVars, sidebarVars, toastVars, timers,
                   buttons, confirmVars, activeElement, searchVars, copyVars>>

(***************************************************************************)
(* Clicks.                                                                 *)
(***************************************************************************)
IsCloseControl(e) == \E t \in Toasts : CloseControlOf(t) = e
IsToast(e) == e \in Toasts

\* The toast whose close control the click is on or inside (Null: none).
ClosedToast(e) ==
    IF Closest(e, IsCloseControl) = Null THEN Null
    ELSE Closest(Closest(e, IsCloseControl), IsToast)

\* What a user can click: an element in the document that is not (inside) a
\* disabled control.
Clickable(e) ==
    /\ e \in present
    /\ Closest(e, IsToast) # Null => toasts[Closest(e, IsToast)].inDoc
    /\ \A b \in SubmitControls : Contains(b, e) => ~buttons[b].disabled

\* The default action of a click the listeners did not prevent: a link is
\* followed, a submit control submits its form.
DefaultEffects(e) ==
    IF Closest(e, IsLink) # Null THEN {<<"navigate", Href(Closest(e, IsLink))>>}
    ELSE IF Closest(e, IsSubmitControl) # Null
            /\ Closest(Closest(e, IsSubmitControl), IsForm) # Null
         THEN {<<"submit", Closest(Closest(e, IsSubmitControl), IsForm)>>}
         ELSE {}

\* The forms that get a submit event from these effects.
SubmittedForms(fx) == {f \in Forms : \E x \in fx : x[1] \in {"submit", "requestSubmit"} /\ x[2] = f}

\* The submit listeners of the forms in `fs`, run on the button table.
RECURSIVE OnSubmitAll(_, _)
OnSubmitAll(bs, fs) ==
    IF fs = {} THEN bs
    ELSE LET f == CHOOSE f \in fs : TRUE IN OnSubmitAll(OnSubmit(bs, f), fs \ {f})

\* What the click does to the outside: the listeners' effects, then the
\* default action unless it was prevented.
ClickEffects(e) ==
    (IF AcceptActs(e) THEN AcceptEffects(pendingAction) ELSE {})
    \cup RowEffects(e)
    \cup (IF ConfirmPrevents(e) \/ CopyPrevents(e) THEN {<<"preventDefault">>}
          ELSE DefaultEffects(e))

\* The copy listener shows the copied state within this click: the legacy
\* command ran and returned true.
CopiedAtOnce(e, ok) ==
    CopyTrigger(e) # Null /\ CopyPath(CopyTrigger(e)) = "legacy" /\ ok

\* The copy listener is left waiting for the clipboard write.
CopyWaits(e) == CopyTrigger(e) # Null /\ CopyPath(CopyTrigger(e)) = "api"

\* A click on element e.  The listeners on the target's ancestors run first
\* (theme toggle, sidebar toggle and backdrop, toast close, row, Accept),
\* then those on the document (copy, confirmation, search), then the default
\* action.  `valid`: the form passes validation, so a requested or default
\* submission fires its submit event.  The legacy copy command returns
\* either result.
Click(e, valid) ==
    /\ Ready
    /\ Clickable(e)
    /\ IF "themeToggle" \in present /\ Contains("themeToggle", e)
       THEN setTheme(ToggledTheme) /\ themeLog' = LoggedTheme
       ELSE UNCHANGED themeVars
    /\ IF SidebarBound /\ "sidebarToggle" \in present /\ Contains("sidebarToggle", e)
       THEN SetSidebarClasses(open(SidebarClasses))
       ELSE IF SidebarBound /\ Contains("sidebarBackdrop", e)
            THEN SetSidebarClasses(close(SidebarClasses))
            ELSE UNCHANGED sidebarVars
    /\ IF ClosedToast(e) # Null
       THEN /\ toasts' = HideToastStyle(toasts, ClosedToast(e))
            /\ closedAt' = [closedAt EXCEPT ![ClosedToast(e)] = IF @ = Never THEN now ELSE @]
       ELSE UNCHANGED <<toasts, closedAt>>
    /\ \E ok \in BOOLEAN :
           LET afterClose == IF ClosedToast(e) # Null
                             THEN HideToastTimer(timers, ClosedToast(e)) ELSE timers IN
           /\ ClosedToast(e) # Null \/ CopiedAtOnce(e, ok) => Cardinality(timers) < MaxTimers
           /\ timers' = IF CopiedAtOnce(e, ok)
                        THEN CopyRevertTimer(afterClose, CopyTrigger(e)) ELSE afterClose
           /\ IF CopiedAtOnce(e, ok) THEN ShowCopied(CopyTrigger(e))
              ELSE UNCHANGED <<copied, iconClasses, copiedFor>>
           /\ IF CopyWaits(e)
              THEN Len(writes) < MaxWrites /\ writes' = Append(writes, CopyTrigger(e))
              ELSE UNCHANGED writes
           /\ effects' = ClickEffects(e) \cup CopyEffects(e, ok)
    /\ pendingAction' =
           IF ConfirmTrigger(e) # Null THEN ConfirmTrigger(e)
           ELSE IF AcceptActs(e) THEN AcceptClears(pendingAction) ELSE pendingAction
    /\ confirmText' =
           IF ConfirmTrigger(e) # Null THEN ConfirmPrompt(ConfirmTrigger(e)) ELSE confirmText
    /\ modalShown' =
           IF ConfirmTrigger(e) # Null THEN TRUE
           ELSE IF AcceptActs(e) THEN FALSE ELSE modalShown
    /\ buttons' = IF valid THEN OnSubmitAll(buttons, SubmittedForms(ClickEffects(e)))
                  ELSE buttons
    /\ panel' = IF SearchBound /\ ~Contains("globalSearchForm", e)
                THEN [panel EXCEPT !.hidden = TRUE] ELSE panel
    /\ dismissed' = (dismissed \/ (SearchBound /\ ~Contains("globalSearchForm", e)))
    /\ UNCHANGED <<pageState, present, clipboardApi, dateVars, now, activeElement,
                   lastQuery, timer, inflight, sinceInput, burstIssued>>

\* The dialog library hides the dialog on its own (Cancel, its backdrop).
DismissModal ==
    /\ ConfirmBound
    /\ modalShown
    /\ modalShown' = FALSE
    /\ effects' = {}
    /\ UNCHANGED <<pageState, present, copyVars, dateVars, themeVars, sidebarVars, toastVars, timers,
                   buttons, pendingAction, confirmText, activeElement, searchVars>>

(***************************************************************************)
(* Toast timers.                                                           *)
(***************************************************************************)
\* The 4500 ms timeout of initToasts fires: hideToast(toast).
FireToastTimeout(t) ==
    /\ t \in Due("toastTimeout")
    /\ toasts' = HideToastStyle(toasts, t.toast)
    /\ timers' = HideToastTimer(timers \ {t}, t.toast)
    /\ effects' = {}
    /\ UNCHANGED <<pageState, present, copyVars, dateVars, themeVars, sidebarVars, now, closedAt, buttons,
                   confirmVars, activeElement, searchVars>>

\* The 200 ms timeout of hideToast fires: toast.remove().
FireToastRemove(t) ==
    /\ t \in Due("toastRemove")
    /\ toasts' = [toasts EXCEPT ![t.toast].inDoc = FALSE]
    /\ timers' = timers \ {t}
    /\ effects' = {}
    /\ UNCHANGED <<pageState, present, copyVars, dateVars, themeVars, sidebarVars, now, closedAt, buttons,
                   confirmVars, activeElement, searchVars>>

(***************************************************************************)
(* The page before init() runs, as the server rendered it: `page` are its  *)
(* elements, `stored` the preference store, `dark` the system preference,  *)
(* `api` whether the browser has the clipboard API, `preset` the option    *)
(* of the date-range select the server marked as selected.                 *)
(***************************************************************************)
InitPageWith(page, stored, dark, api, preset) ==
    /\ pageState = "loading"
    /\ present = page
    /\ storedTheme = stored
    /\ prefersDark = dark
    /\ rootTheme = Null
    /\ themeToggleHtml = "original"
    /\ themeLog = <<>>
    /\ sidebarOpen = FALSE
    /\ backdropOpen = FALSE
    /\ toasts = [t \in Toasts |-> [inDoc |-> t \in page, opacity |-> "", transform |-> ""]]
    /\ now = 0
    /\ closedAt = [t \in Toasts |-> Never]
    /\ timers = {}
    /\ buttons = [b \in SubmitControls |-> IdleButton]
    /\ pendingAction = Null
    /\ modalShown = FALSE
    /\ confirmText = ""
    /\ activeElement = "body"
    /\ effects = {}
    /\ lastQuery = <<>>
    /\ dismissed = FALSE
    /\ timer = 0
    /\ inflight = <<>>
    /\ panel = [hidden |-> TRUE, html |-> EmptyHtml]
    /\ sinceInput = LATE
    /\ burstIssued = 0
    /\ clipboardApi = api
    /\ copied = [b \in CopyButtons |-> FALSE]
    /\ iconClasses = [i \in Icons |-> {"bi-clipboard"}]
    /\ writes = <<>>
    /\ copiedFor = [b \in CopyButtons |-> CopiedCap]
    /\ dateValue = preset
    /\ customDisplay = ""

\* A page in a browser with the clipboard API, no date preset selected.
InitPage(page, stored, dark) == InitPageWith(page, stored, dark, TRUE, "")

ToastElements == {"toast1", "toast1Close", "toast2"}

(***************************************************************************)
(* SpecSearch: the search box on a page without toasts.  The user types,   *)
(* time passes, lookups settle in any order, Escape is pressed and clicks  *)
(* land inside and outside the search form.                                *)
(***************************************************************************)
SearchPages ==
    { Elements \ ToastElements,
      Elements \ (ToastElements \cup {"globalSearchResults"}) }

InitSearch == \E page \in SearchPages : InitPage(page, Null, FALSE)

NextSearch ==
    \/ init
    \/ \E v \in InputValues : Input(v)
    \/ \E t \in timers : FireSearchTimer(t)
    \/ \E i \in 1..MaxInFlight, b \in ServerBodies : FetchSettles(i, "ok", b)
    \/ \E i \in 1..MaxInFlight, r \in FetchResults \ {"ok"} : FetchSettles(i, r, NoBody)
    \/ \E i \in 1..MaxInFlight : JsonSettles(i)
    \/ Advance(SearchStep)
    \/ KeyDown("Escape")
    \/ \E e \in {"body", "globalSearchInput"} : Click(e, TRUE)

SpecSearch == InitSearch /\ [][NextSearch]_vars

(***************************************************************************)
(* SpecToast: a page with toasts.  Time passes and the user clicks on the  *)
(* toasts and on the close control of the one that has it.                 *)
(***************************************************************************)
ToastPages == {Elements, Elements \ {"toast2"}}

InitToast == \E page \in ToastPages : InitPage(page, Null, FALSE)

NextToast ==
    \/ init
    \/ \E e \in ToastElements : Click(e, TRUE)
    \/ \E t \in timers : FireToastTimeout(t)
    \/ \E t \in timers : FireToastRemove(t)
    \/ Advance(ToastStep)

SpecToast == InitToast /\ [][NextToast]_vars

(***************************************************************************)
(* Spec: theme, sidebar and keyboard on a page without toasts and with a   *)
(* quiet search box.  The page loads with any preference store and system  *)
(* preference; the user clicks on the page chrome and on links, presses    *)
(* keys and moves the focus.                                               *)
(***************************************************************************)
FullPage == Elements \ ToastElements

Pages ==
    { FullPage,
      FullPage \ {"themeToggle", "sidebarToggle", "newOrderLink"},
      FullPage \ {"globalSearchInput", "sidebarBackdrop"} }

ChromeTargets ==
    {"body", "themeToggle", "sidebarToggle", "sidebarBackdrop", "sidebar",
     "newOrderLink", "globalSearchInput"}

FocusTargets == {"body", "globalSearchInput", "notes", "dateRangePreset", "saveButton"}

Init ==
    \E page \in Pages, stored \in StoredValues, dark \in BOOLEAN :
        InitPage(page, stored, dark)

Next ==
    \/ init
    \/ \E e \in ChromeTargets : Click(e, TRUE)
    \/ \E k \in Keys : KeyDown(k)
    \/ \E e \in FocusTargets : Focus(e)

Spec == Init /\ [][Next]_vars

(***************************************************************************)
(* SpecDialog: the confirmation dialog and the forms' submit controls.     *)
(* The user clicks on triggers, on Accept and on submit controls, submits  *)
(* forms from the keyboard and dismisses the dialog.                       *)
(***************************************************************************)
DialogPages == {FullPage, FullPage \ {"confirmActionAccept"}}

DialogTargets ==
    {"body", "deleteLink", "deleteIcon", "deleteButton", "archiveButton",
     "confirmActionAccept", "confirmActionBody", "saveButton", "notes", "newOrderLink"}

InitDialog == \E page \in DialogPages : InitPage(page, Null, FALSE)

NextDialog ==
    \/ init
    \/ \E e \in DialogTargets, valid \in BOOLEAN : Click(e, valid)
    \/ \E f \in Forms : Submit(f)
    \/ DismissModal

SpecDialog == InitDialog /\ [][NextDialog]_vars

(***************************************************************************)
(* SpecCopy: the copy buttons, in a browser with and without the clipboard *)
(* API.  The user clicks on a copy button, on its icon and on a button     *)
(* with an empty payload; writes resolve or reject, time passes.           *)
(***************************************************************************)
CopyTargets == {"copyButton", "copyIcon", "copyEmpty", "body"}

InitCopy == \E api \in BOOLEAN : InitPageWith(FullPage, Null, FALSE, api, "")

NextCopy ==
    \/ init
    \/ \E e \in CopyTargets : Click(e, TRUE)
    \/ \E i \in 1..MaxWrites, ok \in BOOLEAN : WriteSettles(i, ok)
    \/ \E t \in timers : FireCopyRevert(t)
    \/ Advance(CopyStep)

SpecCopy == InitCopy /\ [][NextCopy]_vars

(***************************************************************************)
(* SpecList: a list page with a filter form and a table.  The user clicks  *)
(* in the rows and on what is nested in them, picks date ranges and moves  *)
(* the focus.                                                              *)
(***************************************************************************)
ListPages == {FullPage, FullPage \ {"customDateRange"}}

RowTargets ==
    {"orderRow", "rowCell", "rowLink", "rowLinkIcon", "rowButton", "rowLabel",
     "rowCheck", "rowSelect", "rowNote", "emptyRow", "emptyRowCell", "body"}

ListFocus == {"body", "dateRangePreset", "rowCheck"}

InitList ==
    \E page \in ListPages, preset \in DateValues, dark \in BOOLEAN :
        InitPageWith(page, Null, dark, TRUE, preset)

NextList ==
    \/ init
    \/ \E e \in RowTargets : Click(e, TRUE)
    \/ \E v \in DateValues : Change(v)
    \/ \E e \in ListFocus : Focus(e)

SpecList == InitList /\ [][NextList]_vars

(***************************************************************************)
(* SpecRender: renderSearchResults on every body whose fields are missing  *)
(* or lists of at most MaxItems items.  The page has a lookup waiting for  *)
(* its body to be parsed (the query "aa" was typed, the window ran out,    *)
(* the response was OK) and the panel in one of the states earlier lookups *)
(* leave.                                                                  *)
(***************************************************************************)
\* Longest list of a body.
MaxItems == 2

RenderItems == {OrderItem, CustomerItem}
RenderFields ==
    {NoField} \cup {ListOf(items) : items \in UNION {[1..n -> RenderItems] : n \in 0..MaxItems}}
RenderPayloads ==
    {Payload("object", o, c, p) : o \in RenderFields, c \in RenderFields, p \in RenderFields}

PanelsBefore ==
    { [hidden |-> TRUE, html |-> EmptyHtml], [hidden |-> TRUE, html |-> SearchError],
      [hidden |-> FALSE, html |-> NothingFound], CatchPanel }

InitRender ==
    /\ pageState = "ready"
    /\ present = FullPage
    /\ storedTheme = "light"
    /\ prefersDark = FALSE
    /\ rootTheme = "light"
    /\ themeToggleHtml = MoonLabel
    /\ themeLog = <<>>
    /\ sidebarOpen = FALSE
    /\ backdropOpen = FALSE
    /\ toasts = [t \in Toasts |-> [inDoc |-> FALSE, opacity |-> "", transform |-> ""]]
    /\ now = 0
    /\ closedAt = [t \in Toasts |-> Never]
    /\ timers = {}
    /\ buttons = [b \in SubmitControls |-> IdleButton]
    /\ pendingAction = Null
    /\ modalShown = FALSE
    /\ confirmText = ""
    /\ activeElement = "globalSearchInput"
    /\ effects = {}
    /\ lastQuery = <<"a", "a">>
    /\ dismissed = FALSE
    /\ timer = 1
    /\ \E p \in RenderPayloads : inflight = <<Lookup("json", TRUE, Body(TRUE, p))>>
    /\ panel \in PanelsBefore
    /\ sinceInput = LATE
    /\ burstIssued = 1
    /\ clipboardApi = TRUE
    /\ copied = [b \in CopyButtons |-> FALSE]
    /\ iconClasses = [i \in Icons |-> {"bi-clipboard"}]
    /\ writes = <<>>
    /\ copiedFor = [b \in CopyButtons |-> CopiedCap]
    /\ dateValue = ""
    /\ customDisplay = "none"

NextRender == JsonSettles(1)

SpecRender == InitRender /\ [][NextRender]_vars

(***************************************************************************)
(* Properties of the search box, checked under SpecSearch.                 *)
(***************************************************************************)
\* The requests of the last step, and the query the endpoint reads from one.
Requests == {x \in effects : x[1] = "fetch"}
QueryOf(request) == DecodeURIComponent(Tail(request))

\* The length of a text without its leading and trailing blanks.
TrimmedLen(text) ==
    LET inked == {i \in 1..Len(text) : text[i] # " "} IN
    IF inked = {} THEN 0
    ELSE (CHOOSE i \in inked : \A j \in inked : j <= i) - Min(inked) + 1

\* The body is one renderSearchResults cannot render: null, or a field that
\* is text instead of a list.
Unrenderable(p) ==
    p.kind = "null" \/ "text" \in {p.orders.kind, p.customers.kind, p.products.kind}

\* C1: whatever the interleaving of input events, debounce expiries and
\* lookup resolutions, a response is rendered into the results panel only
\* when it answers the most recently issued lookup; the response of an older
\* lookup that settles after a newer one was issued is not rendered.
C1_OnlyLatestRendered ==
    [][\A i \in 1..MaxInFlight :
           JsonSettles(i) /\ inflight[i].body.parses
               /\ ~Unrenderable(inflight[i].body.payload)
               => inflight[i].latest]_vars

\* The values of the box whose trimmed length is below 2.
ShortInputs == {v : v \in {u \in InputValues : TrimmedLen(u) < 2}}

\* C2: an input event whose trimmed query is shorter than 2 characters
\* leaves no debounce timer pending, hides and empties the results panel
\* and issues no lookup; and every lookup ever issued carries a query whose
\* trimmed length is at least 2.  (An input event restarts the stopwatch
\* and records its query; that is tested first, so that the other steps are
\* dismissed at once.)
C2_ShortQueryIssuesNothing ==
    /\ [](\A x \in Requests : TrimmedLen(QueryOf(x)) >= 2)
    /\ [][SearchBound /\ sinceInput' = 0 /\ TrimmedLen(lastQuery') < 2
                  /\ (\E v \in ShortInputs : Input(v))
                  => /\ {t \in timers' : t.kind = "search"} = {}
                     /\ panel'.hidden
                     /\ panel'.html = <<>>
                     /\ inflight' = inflight]_vars

\* C2's case: a one-letter query has just been handled while an earlier
\* lookup is still in flight.
C2_Witness ==
    /\ SearchBound
    /\ Len(lastQuery) = 1
    /\ sinceInput = 0
    /\ timer # 0
    /\ inflight # <<>>

\* C3: a lookup is issued exactly 180 ms after the last input event and
\* carries that event's trimmed query, which has at least 2 characters; no
\* lookup is issued sooner after an input event, nor a second one before the
\* next input event, and one has been issued once more than 180 ms have
\* passed since an input event with such a query.  So a burst of inputs less
\* than 180 ms apart issues exactly one lookup, for its last query.
C3_OneLookupPerBurst ==
    /\ [](/\ burstIssued <= 1
          /\ sinceInput < DEBOUNCE_MS => burstIssued = 0
          /\ Len(lastQuery) < 2 => burstIssued = 0
          /\ SearchBound /\ Len(lastQuery) >= 2 /\ sinceInput > DEBOUNCE_MS
                 => burstIssued = 1)
    /\ [][Len(inflight') > Len(inflight)
              => /\ Len(inflight') = Len(inflight) + 1
                 /\ sinceInput = DEBOUNCE_MS
                 /\ burstIssued = 0
                 /\ Len(lastQuery) >= 2
                 /\ effects' = {<<"fetch">> \o EncodeURIComponent(lastQuery)}
                 /\ {t \in timers' : t.kind = "search"} = {}]_vars

\* C3's case: the lookup of a burst has been issued, for a query with a
\* blank inside, the window after the last input having just run out.
C3_Witness ==
    /\ burstIssued = 1
    /\ sinceInput = DEBOUNCE_MS
    /\ lastQuery = <<"a", " ", "a">>
    /\ effects = {<<"fetch", "a", "%20", "a">>}

\* C5: a lookup that fails (the fetch rejects, the status is not OK, the
\* body does not parse or cannot be rendered) leaves the results panel
\* visible with exactly the search-error placeholder, whatever it held, and
\* schedules or issues no other lookup.
C5_FailureShowsError ==
    [][\A i \in 1..MaxInFlight :
           \/ \E r \in {"not-ok", "rejected"} : FetchSettles(i, r, NoBody)
           \/ /\ JsonSettles(i)
              /\ ~inflight[i].body.parses \/ Unrenderable(inflight[i].body.payload)
           => /\ ~panel'.hidden
              /\ panel'.html = <<<<"global-search-empty", "Pomylka poshuku">>>>
              /\ Len(inflight') = Len(inflight) - 1
              /\ timers' = timers]_vars

\* C5's case: the error placeholder is shown while another lookup is still
\* in flight and the panel no longer hidden.
C5_Witness ==
    /\ ~panel.hidden
    /\ panel.html = SearchError
    /\ Len(inflight) = 1

(***************************************************************************)
(* Properties of renderSearchResults, checked under SpecRender.            *)
(***************************************************************************)
\* The items of a field of the body: none when the field is missing.
Listed(field) == IF field = NoField THEN <<>> ELSE field.items

\* One group as the claim describes it: nothing for an empty list, else a
\* header and one link per item.
Section(title, items) ==
    IF items = <<>> THEN <<>>
    ELSE <<<<"section.global-search-group", title>>>>
         \o [i \in 1..Len(items) |->
                <<"a.global-search-item", items[i].url, items[i].title,
                  IF items[i].meta = Missing THEN "" ELSE items[i].meta>>]
         \o <<<<"/section">>>>

\* Orders, then customers, then products.
Sections(p) ==
    Section("Zamovlennia", Listed(p.orders))
    \o Section("Kliienty", Listed(p.customers))
    \o Section("Tovary", Listed(p.products))

\* C4: for every body whose fields orders, customers and products are
\* lists or missing, renderSearchResults writes one group (a header and one
\* link per item) for each non-empty list and none for an empty or missing
\* one, in the order orders, customers, products; when there is no group it
\* writes exactly the nothing-found placeholder; the panel is visible
\* afterwards in every case.
C4_RenderGroups ==
    [][JsonSettles(1)
           => /\ ~panel'.hidden
              /\ panel'.html =
                     IF Sections(inflight[1].body.payload) = <<>>
                     THEN <<<<"global-search-empty", "Nichoho ne znaideno">>>>
                     ELSE Sections(inflight[1].body.payload)]_vars

\* C4's case: a body with orders and products and an empty customers list
\* has been rendered: two groups, the orders first, the panel visible.
C4_Witness ==
    /\ inflight = <<>>
    /\ ~panel.hidden
    /\ Len(panel.html) = 7
    /\ panel.html[1] = <<"section.global-search-group", "Zamovlennia">>
    /\ panel.html[5] = <<"section.global-search-group", "Tovary">>

(***************************************************************************)
(* Properties of the confirmation dialog and of the submit controls,       *)
(* checked under SpecDialog.                                               *)
(***************************************************************************)
\* C6: on a page that has the dialog, a click on (or inside) an element
\* carrying a confirmation prompt performs no navigation and no submission
\* of its own: it stores the element as the pending trigger and shows the
\* dialog.  A click on Accept while a trigger is pending navigates to the
\* trigger's target when the trigger is a link, or requests submission of
\* the owning form when it is a submit control; afterwards the dialog is
\* hidden and no trigger is pending.
C6_ConfirmThenAccept ==
    [][\A e \in DialogTargets, valid \in BOOLEAN :
           Click(e, valid) /\ ConfirmBound
               => /\ Closest(e, HasConfirm) # Null
                         => /\ \A x \in effects' :
                                    x[1] \notin {"navigate", "submit", "requestSubmit"}
                            /\ buttons' = buttons
                            /\ pendingAction' = Closest(e, HasConfirm)
                            /\ modalShown'
                  /\ Contains("confirmActionAccept", e) /\ pendingAction # Null
                         => /\ Tag(pendingAction) = "A"
                                => effects' = {<<"navigate", Href(pendingAction)>>}
                            /\ Type(pendingAction) = "submit"
                                => effects' = {<<"requestSubmit", Parent(pendingAction),
                                                 pendingAction>>}
                            /\ ~modalShown'
                            /\ pendingAction' = Null]_vars

\* C6's case: Accept has just requested the submission of the delete form
\* for its pending submit control; the dialog is hidden, nothing is pending.
C6_Witness ==
    /\ effects = {<<"requestSubmit", "deleteForm", "deleteButton">>}
    /\ confirmText = DefaultConfirmText
    /\ pendingAction = Null
    /\ ~modalShown

\* A submit control as the user sees it: idle, or loading with its label.
LooksIdle(b) == ~buttons[b].disabled /\ ~buttons[b].loading /\ buttons[b].html = <<"original">>
LooksLoading(b, label) ==
    /\ buttons[b].disabled
    /\ buttons[b].loading
    /\ buttons[b].html = <<"btn-spinner", "btn-label", label>>
LabelOf(b) == IF b = "saveButton" THEN "Saving the order" ELSE "Zberezhennia..."

\* The step delivers a submit event to form f.
SubmitEvent(f) ==
    \/ Submit(f)
    \/ \E e \in DialogTargets :
           Click(e, TRUE) /\ \E x \in effects' : x[1] \in {"submit", "requestSubmit"} /\ x[2] = f

\* C7: a form's submit control is idle or loading; the first submit event
\* of the form takes it from idle to loading (disabled, its content the
\* spinner and the label); every later submit event, and every other
\* event, leaves a loading control as it is, so it never returns to idle.
C7_LoadingOnce ==
    /\ [](\A b \in SubmitControls : LooksIdle(b) \/ LooksLoading(b, LabelOf(b)))
    /\ [][\A f \in Forms :
              LET b == SubmitControlOf(f) IN
              b # Null
                  => /\ SubmitEvent(f) /\ LooksIdle(b)
                         => LooksLoading(b, LabelOf(b))'
                     /\ ~LooksIdle(b) => buttons'[b] = buttons[b]]_vars

\* C7's case: the edit form has just had a submit event with its control
\* loading under its own label, the delete form's control loading as well.
C7_Witness ==
    /\ effects = {<<"submit", "editForm">>}
    /\ buttons["saveButton"].disabled
    /\ buttons["saveButton"].html = <<"btn-spinner", "btn-label", "Saving the order">>
    /\ buttons["deleteButton"].disabled

(***************************************************************************)
(* Properties of the toasts, checked under SpecToast.                      *)
(***************************************************************************)
\* When a toast leaves the document at the latest: 200 ms after the first
\* click on its close control, or 4500 + 200 ms after initialization.
RemovalTime(t) ==
    IF closedAt[t] # Never /\ closedAt[t] + 200 < 4500 + 200 THEN closedAt[t] + 200
    ELSE 4500 + 200

\* C8: every toast present at initialization is out of the document no
\* later than 4500 + 200 ms after initialization, whatever is clicked, and
\* 200 ms after the first click on its close control when that is earlier:
\* it is in the document before that time and out of it after; a toast that
\* is out of the document never comes back, also when the 4500 ms timeout
\* fires after a manual close.
C8_ToastRemoved ==
    /\ [](\A t \in Toasts \cap present :
              /\ toasts[t].inDoc => now <= RemovalTime(t)
              /\ Ready /\ ~toasts[t].inDoc => now >= RemovalTime(t))
    /\ [][\A t \in Toasts : ~toasts[t].inDoc => ~toasts'[t].inDoc]_vars

\* C8's case: a toast closed by hand was removed 200 ms later, and the
\* 4500 ms timeout has fired since; the toast without a close control is
\* out as well.
C8_Witness ==
    /\ closedAt["toast1"] = 400
    /\ ~toasts["toast1"].inDoc
    /\ "toast2" \in present
    /\ ~toasts["toast2"].inDoc
    /\ now > 4500 + 200
    /\ timers = {}

(***************************************************************************)
(* Properties of the shortcuts and of the theme, checked under Spec.       *)
(***************************************************************************)
\* C9: while the focused element is an input, a textarea or a select, a
\* keydown of any key but Escape does nothing: no navigation, no change of
\* focus, no default action suppressed.  So once f has focused the search
\* box, n does not navigate until the focus has left the box.
C9_TypingIgnoresShortcuts ==
    [][\A k \in Keys \ {"Escape"} :
           KeyDown(k) /\ activeElement \in {"globalSearchInput", "notes", "dateRangePreset"}
               => /\ effects' = {}
                  /\ activeElement' = activeElement]_vars

\* C9's case: f has just focused the search box on a page with the
\* new-order link (the key was pressed outside any control).
C9_Witness ==
    /\ activeElement = "globalSearchInput"
    /\ effects = {<<"preventDefault">>}
    /\ "newOrderLink" \in present

\* C10 as claimed: initialization applies the persisted value whenever there
\* is one, else dark or light after the system preference, and leaves the
\* root attribute and the persisted value equal to the applied theme.
C10_AppliesAnyPersisted ==
    [][init
           => /\ rootTheme' = IF storedTheme # Null THEN storedTheme
                              ELSE IF prefersDark THEN "dark" ELSE "light"
              /\ storedTheme' = rootTheme']_vars

\* C10, amended: initialization applies the persisted value when there is
\* one and it is not the empty string; otherwise (no value, or the empty
\* string) it applies dark when the system preference is dark and light
\* when it is not; either way the root attribute and the persisted value
\* both equal the applied theme when initialization ends.
C10_AppliesNonEmptyPersisted ==
    [][init
           => /\ rootTheme' = IF storedTheme \notin {Null, ""} THEN storedTheme
                              ELSE IF prefersDark THEN "dark" ELSE "light"
              /\ storedTheme' = rootTheme']_vars

\* C10's case: a persisted value was applied against the system preference.
C10_Witness ==
    /\ Ready
    /\ prefersDark
    /\ rootTheme = "sepia"
    /\ storedTheme = "sepia"

\* C11 as claimed: after two consecutive clicks on the theme toggle the root
\* attribute and the persisted value are what they were before the two
\* clicks, whatever the theme was.
C11_ToggleTwiceRestores ==
    Len(themeLog) = 2 => <<rootTheme, storedTheme>> = themeLog[1]

\* C11, amended: from a theme state reached after initialization in which
\* the root attribute is light or dark, two consecutive clicks on the theme
\* toggle leave the root attribute and the persisted value equal to what
\* they were before the two clicks.
C11_ToggleTwiceRestoresLightDark ==
    Len(themeLog) = 2 /\ themeLog[1][1] \in {"light", "dark"}
        => /\ rootTheme = themeLog[1][1]
           /\ storedTheme = themeLog[1][2]

\* C11's case: two clicks on the toggle took the theme from dark over light
\* back to dark.
C11_Witness ==
    /\ themeLog = << <<"dark", "dark">>, <<"light", "light">> >>
    /\ rootTheme = "dark"
    /\ storedTheme = "dark"
    /\ themeToggleHtml = SunLabel

\* C12 as claimed: in every state after initialization the persisted value
\* is light or dark and equals the root attribute, whatever the preference
\* store held before.
C12_StoredLightOrDark ==
    Ready => storedTheme \in {"light", "dark"} /\ storedTheme = rootTheme

\* C12, amended: in every state after initialization the persisted value
\* equals the root attribute; it is light or dark after initialization when
\* the store held nothing, the empty string, light or dark before, it stays
\* light or dark from then on, and it is light or dark after the first
\* toggle click whatever the store held.
C12_StoredEqualsRoot ==
    /\ [](Ready => storedTheme = rootTheme)
    /\ [](Ready /\ themeLog # <<>> => storedTheme \in {"light", "dark"})
    /\ [][init /\ storedTheme \in {Null, "", "light", "dark"}
              => storedTheme' \in {"light", "dark"}]_vars
    /\ [][Ready /\ storedTheme \in {"light", "dark"}
              => storedTheme' \in {"light", "dark"}]_vars

\* C12's case: the store held a foreign value, which initialization applied,
\* and one toggle click has replaced it by dark.
C12_Witness ==
    /\ themeLog = << <<"sepia", "sepia">> >>
    /\ storedTheme = "dark"
    /\ rootTheme = "dark"

(***************************************************************************)
(* Properties of the copy buttons, checked under SpecCopy.                 *)
(***************************************************************************)
\* The revert timers pending for a copy button.
PendingRevert(b) == {t \in timers : t.kind = "copyRevert" /\ t.toast = b}

\* The timer is pending before the step and gone after it.
Fired(t) == t \in timers /\ \A u \in timers' : u.id # t.id

\* The step ends a copy in failure: a clipboard write rejects, or a click on
\* a copy button neither puts its text on the clipboard nor starts a write
\* (empty payload, legacy command returning false).
CopyFails ==
    \/ \E i \in 1..MaxWrites : WriteSettles(i, FALSE)
    \/ \E e \in CopyTargets :
           /\ Click(e, TRUE)
           /\ Closest(e, HasCopy) # Null
           /\ \A x \in effects' : x[1] \notin {"clipboard", "writeText"}

\* The copied state is only ever set by a step in which the button's text
\* reached the clipboard, and such a step sets it, with the check icon, and
\* starts a timer of 1400 ms for the button.
CopiedOnSuccess ==
    \A b \in CopyButtons :
        /\ ~copied[b] /\ copied'[b] => <<"clipboard", DataCopy(b)>> \in effects'
        /\ <<"clipboard", DataCopy(b)>> \in effects'
               => /\ copied'[b]
                  /\ \A i \in Icons : Parent(i) = b => "bi-check2" \in iconClasses'[i]
                  /\ \E t \in PendingRevert(b)' : t \notin timers /\ t.remaining = 1400

\* A failed copy leaves the copied state, the icons and the timers alone.
FailureChangesNothing ==
    CopyFails => copied' = copied /\ iconClasses' = iconClasses /\ timers' = timers

\* C13 as claimed: the copied state is set only by a successful copy; a
\* copied state that is taken off is taken off 1.4 s after it was set by
\* the latest successful copy; a failed copy changes nothing and starts no
\* timer.
C13_RevertedAfter1400 ==
    [][/\ CopiedOnSuccess
       /\ FailureChangesNothing
       /\ \A b \in CopyButtons : copied[b] /\ ~copied'[b] => copiedFor[b] = 1400]_vars

\* C13, amended: the copied state is set only by a successful copy, and
\* every successful copy starts a timer that takes the copied state (and
\* the check icon) off 1.4 s later; so a copied state is taken off at most
\* 1.4 s after it was set, and earlier when the timer of an earlier
\* successful copy is still pending.  A failed copy changes nothing and
\* starts no timer.
C13_RevertedByTimer ==
    /\ [](\A b \in CopyButtons :
              copied[b] => PendingRevert(b) # {} /\ copiedFor[b] <= 1400)
    /\ [][/\ CopiedOnSuccess
          /\ FailureChangesNothing
          /\ \A b \in CopyButtons :
                 /\ copied[b] /\ ~copied'[b]
                        => \E t \in PendingRevert(b) : t.remaining = 0 /\ Fired(t)
                 /\ (\E t \in PendingRevert(b) : Fired(t))
                        => /\ ~copied'[b]
                           /\ \A i \in Icons :
                                  Parent(i) = b => iconClasses'[i] = {"bi-clipboard"}]_vars

\* C13's case: two copies succeeded 700 ms apart, and the timer of the first
\* has taken the copied state off 700 ms after the second set it; the timer
\* of the second is still pending.
C13_Witness ==
    /\ ~copied["copyButton"]
    /\ copiedFor["copyButton"] = 700
    /\ iconClasses["copyIcon"] = {"bi-clipboard"}
    /\ \E t \in PendingRevert("copyButton") : t.remaining = 700

(***************************************************************************)
(* Properties of the rows and of the date range, checked under SpecList.   *)
(***************************************************************************)
\* The rows with a navigation target that the click on e is in.
TargetRows(e) ==
    {r \in Elements : DataRowLink(r) \notin {Missing, ""} /\ Contains(r, e)}

\* The click on e lands on or inside a link, button, input, select,
\* textarea or label nested in row r.
OnNestedControl(e, r) ==
    \E c \in Elements \ {r} :
        /\ Tag(c) \in {"A", "BUTTON", "INPUT", "SELECT", "TEXTAREA", "LABEL"}
        /\ Contains(r, c)
        /\ Contains(c, e)

\* C14: a click in a row that has a navigation target navigates to that
\* target (and nowhere else), except when the click lands on or inside a
\* link, button, input, select, textarea or label nested in the row: then
\* there is no navigation to the row's target.
C14_RowClickNavigates ==
    [][\A e \in RowTargets : \A r \in TargetRows(e) :
           Click(e, TRUE)
               => IF OnNestedControl(e, r)
                  THEN <<"navigate", DataRowLink(r)>> \notin effects'
                  ELSE effects' = {<<"navigate", DataRowLink(r)>>}]_vars

\* C14's case: a click on a plain cell of the row has navigated to the
\* row's target.
C14_Witness ==
    /\ Ready
    /\ effects = {<<"navigate", "/orders/7/">>}

\* C16: on a page with the select and the field group, right after
\* initialization and after every change event of the select the field
\* group's display is flex when the select's value is custom and none for
\* every other value; and so it is in every state after initialization.
C16_CustomRangeShown ==
    /\ [][(init \/ \E v \in DateValues : Change(v))
              /\ {"dateRangePreset", "customDateRange"} \subseteq present
              => customDisplay' = IF dateValue' = "custom" THEN "flex" ELSE "none"]_vars
    /\ [](Ready /\ {"dateRangePreset", "customDateRange"} \subseteq present
              => /\ customDisplay = "flex" <=> dateValue = "custom"
                 /\ customDisplay = "none" <=> dateValue # "custom")

\* C16's case: the user, the select focused, has picked a value that
\* differs from the sentinel in case only, and the group is hidden.
C16_Witness ==
    /\ Ready
    /\ activeElement = "dateRangePreset"
    /\ dateValue = "Custom"
    /\ customDisplay = "none"

(***************************************************************************)
(* Properties of the sidebar, checked under Spec.                          *)
(***************************************************************************)
\* The page has the sidebar, its backdrop and its toggle, and init() ran.
SidebarPage == Ready /\ {"sidebar", "sidebarBackdrop", "sidebarToggle"} \subseteq present

\* C15: on a page with the sidebar, the backdrop and the toggle, whatever
\* sequence of toggle clicks, backdrop clicks and Escape presses came
\* before: after a backdrop click or an Escape press neither the sidebar nor
\* the backdrop has the open class, and after a toggle click both have it.
C15_SidebarFollowsLastEvent ==
    [][SidebarPage
           => /\ Click("sidebarBackdrop", TRUE) \/ KeyDown("Escape")
                  => ~sidebarOpen' /\ ~backdropOpen'
              /\ Click("sidebarToggle", TRUE)
                  => sidebarOpen' /\ backdropOpen']_vars

\* C15's case: a toggle click has opened the sidebar and its backdrop
\* (only a toggle click sets the classes), the next backdrop click or Escape
\* press closes them.
C15_Witness ==
    /\ SidebarPage
    /\ sidebarOpen
    /\ backdropOpen

(***************************************************************************)
(* Properties of racing lookups, checked under SpecSearch.                 *)
(***************************************************************************)
\* What a lookup that ends writes to the panel: the rendering of its own
\* response when it got one that parses and renders, the error placeholder
\* otherwise.
OwnRendering(lookup) ==
    LET r == renderSearchResults(panel, lookup.body.payload) IN
    IF lookup.stage = "json" /\ lookup.body.parses /\ ~r.threw
    THEN r.html
    ELSE SearchError

\* C17: no lookup in flight is cancelled or discarded.  The lookups in
\* flight change only when one more is issued (the others stay as they are,
\* but for no longer being the latest), when one gets its response, or when
\* one ends; and every lookup that ends, whether or not it was the one
\* issued last, writes its own rendering to the panel and makes the panel
\* visible, so the panel shows the lookup that ended last.
C17_EveryLookupRenders ==
    [][inflight' # inflight
          => \/ /\ Len(inflight') = Len(inflight) + 1
                /\ \A i \in DOMAIN inflight :
                       /\ inflight'[i].stage = inflight[i].stage
                       /\ inflight'[i].body = inflight[i].body
             \/ \E i \in DOMAIN inflight :
                    /\ Len(inflight') = Len(inflight)
                    /\ inflight[i].stage = "fetch"
                    /\ inflight'[i].stage = "json"
                    /\ inflight' = [inflight EXCEPT ![i] = inflight'[i]]
             \/ \E i \in DOMAIN inflight :
                    /\ inflight' = RemoveAt(inflight, i)
                    /\ ~panel'.hidden
                    /\ panel'.html = OwnRendering(inflight[i])]_vars

\* C17's case: of two lookups in flight the one issued last has ended and
\* the panel shows its outcome, while the older one has its response and is
\* about to render it.
C17_Witness ==
    /\ Len(inflight) = 1
    /\ ~inflight[1].latest
    /\ inflight[1].stage = "json"
    /\ inflight[1].body.parses
    /\ ~panel.hidden
    /\ panel.html # OwnRendering(inflight[1])

\* C18: once the panel has been hidden by an Escape press, by a click
\* outside the search form or by an input event with a trimmed query
\* shorter than 2 characters, it is hidden in every state up to the next
\* input event, whatever timer fires or lookup ends in between.
C18_DismissedStaysHidden ==
    SearchBound /\ dismissed => panel.hidden

(***************************************************************************)
(* Properties of the pending trigger, checked under SpecDialog.            *)
(***************************************************************************)
\* The action a confirmation trigger stands for: a link's navigation, a
\* submit control's request to submit its form, nothing for anything else.
TriggerAction(t) ==
    IF Tag(t) = "A" /\ Href(t) # "" THEN {<<"navigate", Href(t)>>}
    ELSE IF Type(t) = "submit" THEN {<<"requestSubmit", Parent(t), t>>}
    ELSE {}

\* The navigations and submissions among the effects of a step.
Performed(fx) == {x \in fx : x[1] \in {"navigate", "submit", "requestSubmit"}}

\* A click on (or inside) the Accept button.
AcceptClick == \E valid \in BOOLEAN : Click("confirmActionAccept", valid)

\* C19: on a page with the dialog, the pending trigger is the trigger
\* clicked most recently, and none once Accept has been clicked since: a
\* click on a trigger makes that trigger the pending one, a click on Accept
\* leaves none pending, and no other step changes it.  A click on Accept
\* while a trigger is pending performs at most one action and that is the
\* pending trigger's action; a click on Accept while none is pending
\* performs no navigation and no submission and leaves the dialog's
\* visibility and text as they are.
C19_AcceptActsOnceForLastTrigger ==
    [][ConfirmBound
           => /\ \A e \in DialogTargets, valid \in BOOLEAN :
                     Click(e, valid) /\ Closest(e, HasConfirm) # Null
                         => pendingAction' = Closest(e, HasConfirm)
              /\ AcceptClick => pendingAction' = Null
              /\ pendingAction' # pendingAction
                     => \/ AcceptClick
                        \/ \E e \in DialogTargets, valid \in BOOLEAN :
                               Click(e, valid) /\ Closest(e, HasConfirm) # Null
              /\ AcceptClick /\ pendingAction # Null
                     => /\ Performed(effects') = TriggerAction(pendingAction)
                        /\ Cardinality(Performed(effects')) <= 1
              /\ AcceptClick /\ pendingAction = Null
                     => /\ Performed(effects') = {}
                        /\ modalShown' = modalShown
                        /\ confirmText' = confirmText
                        /\ buttons' = buttons]_vars

\* C19's case: a click on Accept has performed the one action of the
\* pending trigger, the delete link: the navigation to its target; the
\* dialog is hidden and nothing is pending, so that one more click on Accept
\* performs nothing.
C19_Witness ==
    /\ ConfirmBound
    /\ pendingAction = Null
    /\ ~modalShown
    /\ confirmText = DataConfirm("deleteLink")
    /\ effects = {<<"navigate", Href("deleteLink")>>}

====
